---- MODULE Spec2Model ----
(***************************************************************************)
(* Model of the hash-linked identity tree (IdentityDag) of                 *)
(* swapy-identity-api.                                                     *)
(*                                                                         *)
(* A node is the JavaScript object { label, hash, childrens }.  The        *)
(* optional field "childrens" is modelled by the pair hasChildrens /       *)
(* childrens: hasChildrens = FALSE is an absent field, hasChildrens = TRUE *)
(* with an empty sequence is the empty array a splice can leave behind.    *)
(* Hashes are strings: a content address is a one-letter string, null is   *)
(* NULL, string concatenation is \o and sha3_256 is the injective term     *)
(* constructor Sha3.  The undeclared identifier "result" of the recursive  *)
(* methods is read right after each assignment, so it is modelled as the   *)
(* value of the recursive call.                                            *)
(*                                                                         *)
(* The IPFS service (IpfsService) is modelled on top of the engine: the    *)
(* store is a set of objects keyed by the address of their content, a call *)
(* of an async method is a record that advances at each await, and the     *)
(* insertions of a batch that await a save are sub-calls that resume in    *)
(* any order.  Encryption is abstracted: LeafCid(d) is the address of the  *)
(* saved payload of data d.  The Api's default sender is modelled from     *)
(* Api and Web3Service.                                                    *)
(***************************************************************************)
EXTENDS Integers, Sequences, FiniteSets, TLC

VARIABLES tree, pre, op, ret, api, store, calls

vars == <<tree, pre, op, ret, api, store, calls>>

\* the variables of the tree engine, of the Api and of the IPFS service
dagVars == <<tree, pre, op, ret>>
apiVars == <<api>>
ipfsVars == <<store, calls>>

\* ---------------------------------------------------------------- bounds
MaxNodes == 3
MaxKids == 2
MaxAccounts == 3
MaxCalls == 2
MaxFailures == 1
MaxSoloCalls == 1

Labels == {"root", "a", "b"}
Addrs == {"x", "y"}
NULL == "null"
Hashes == Addrs \cup {NULL}

\* ------------------------------------------------------------ primitives
\* JavaScript truthiness of a hash value (null is falsy, an address is not)
Truthy(h) == h # NULL

\* sha3_256 as an injective constructor over strings
Sha3(data) == "H(" \o data \o ")"

\* node.childrens && node.childrens.length > 0
HasKids(node) == node.hasChildrens /\ Len(node.childrens) > 0

\* { label, hash } : an object without a childrens field
NewNode(label, hash) ==
    [label |-> label, hash |-> hash, hasChildrens |-> FALSE, childrens |-> <<>>]

initTree == NewNode("root", NULL)

\* result value of a method: null, false or a node reference (path from the
\* tree the method was called on)
RNull == [kind |-> "null", path |-> <<>>]
RFalse == [kind |-> "false", path |-> <<>>]
RNode(p) == [kind |-> "node", path |-> p]
RNone == [kind |-> "none", path |-> <<>>]

\* the recursive methods of IdentityDag and their loops
RECURSIVE ConcatHashes(_, _, _)
RECURSIVE insertNode(_, _, _, _)
RECURSIVE insertLoop(_, _, _, _, _)
RECURSIVE dfs(_, _)
RECURSIVE dfsLoop(_, _, _)
RECURSIVE updateNode(_, _, _)
RECURSIVE updateLoop(_, _, _, _)
RECURSIVE removeNode(_, _)
RECURSIVE removeLoop(_, _, _)

\* ------------------------------------------------------------ renewNodeHash
\* variant: the children's hashes are accumulated in reverse order
ConcatHashes_rev(kids, j, data) ==
    IF j > Len(kids) THEN data
    ELSE IF Truthy(kids[j].hash)
         THEN ConcatHashes(kids, j + 1,
                  IF Truthy(data) THEN kids[j].hash \o data ELSE kids[j].hash)
         ELSE ConcatHashes(kids, j + 1, data)

ConcatHashes(kids, j, data) ==
    IF j > Len(kids) THEN data
    ELSE IF Truthy(kids[j].hash)
         THEN ConcatHashes(kids, j + 1,
                  IF Truthy(data) THEN data \o kids[j].hash ELSE kids[j].hash)
         ELSE ConcatHashes(kids, j + 1, data)

\* variant: the accumulator starts from the node's own hash instead of null
renewNodeHash_self(node) ==
    IF HasKids(node)
    THEN LET data == ConcatHashes(node.childrens, 1, node.hash)
         IN  IF Truthy(data) THEN [node EXCEPT !.hash = Sha3(data)] ELSE node
    ELSE node

renewNodeHash(node) ==
    IF HasKids(node)
    THEN LET data == ConcatHashes(node.childrens, 1, NULL)
         IN  IF Truthy(data) THEN [node EXCEPT !.hash = Sha3(data)] ELSE node
    ELSE node

\* --------------------------------------------------------------- insertNode
\* variant: the new node is put in front of the existing children
insertNode_prepend(node, parentLabel, label, hash) ==
    IF node.label = parentLabel
    THEN LET newNode == NewNode(label, hash)
             pushed == IF HasKids(node)
                       THEN [node EXCEPT !.childrens = <<newNode>> \o @]
                       ELSE [node EXCEPT !.hasChildrens = TRUE,
                                         !.childrens = <<newNode>>]
         IN  [res |-> RNode(<<>>), node |-> renewNodeHash(pushed)]
    ELSE IF HasKids(node)
         THEN insertLoop(node, 1, parentLabel, label, hash)
         ELSE [res |-> RNull, node |-> node]

\* variant: a node without children that does not match returns itself
insertNode_returnsNode(node, parentLabel, label, hash) ==
    IF node.label = parentLabel
    THEN LET newNode == NewNode(label, hash)
             pushed == IF HasKids(node)
                       THEN [node EXCEPT !.childrens = Append(@, newNode)]
                       ELSE [node EXCEPT !.hasChildrens = TRUE,
                                         !.childrens = <<newNode>>]
         IN  [res |-> RNode(<<>>), node |-> renewNodeHash(pushed)]
    ELSE IF HasKids(node)
         THEN insertLoop(node, 1, parentLabel, label, hash)
         ELSE [res |-> RNode(<<>>), node |-> node]

insertNode(node, parentLabel, label, hash) ==
    IF node.label = parentLabel
    THEN LET newNode == NewNode(label, hash)
             pushed == IF HasKids(node)
                       THEN [node EXCEPT !.childrens = Append(@, newNode)]
                       ELSE [node EXCEPT !.hasChildrens = TRUE,
                                         !.childrens = <<newNode>>]
         IN  [res |-> RNode(<<>>), node |-> renewNodeHash(pushed)]
    ELSE IF HasKids(node)
         THEN insertLoop(node, 1, parentLabel, label, hash)
         ELSE [res |-> RNull, node |-> node]

insertLoop(node, i, parentLabel, label, hash) ==
    IF i > Len(node.childrens) THEN [res |-> RNull, node |-> node]
    ELSE LET r == insertNode(node.childrens[i], parentLabel, label, hash)
             node2 == [node EXCEPT !.childrens[i] = r.node]
         IN  IF r.res.kind = "node"
             THEN [res |-> RNode(<<>>), node |-> renewNodeHash(node2)]
             ELSE insertLoop(node2, i + 1, parentLabel, label, hash)

\* ---------------------------------------------------------------------- dfs
\* variant: the children are searched before the node itself
dfs_postOrder(node, search) ==
    LET below == IF HasKids(node) THEN dfsLoop(node, 1, search) ELSE RNull
    IN  IF below.kind = "node" THEN below
        ELSE IF node.label = search THEN RNode(<<>>) ELSE RNull

dfs(node, search) ==
    IF node.label = search THEN RNode(<<>>)
    ELSE IF HasKids(node) THEN dfsLoop(node, 1, search)
    ELSE RNull

dfsLoop(node, i, search) ==
    IF i > Len(node.childrens) THEN RNull
    ELSE LET result == dfs(node.childrens[i], search)
         IN  IF result.kind = "node" THEN RNode(<<i>> \o result.path)
             ELSE dfsLoop(node, i + 1, search)

\* --------------------------------------------------------------- updateNode
updateNode(node, search, data) ==
    IF node.label = search /\ (~node.hasChildrens \/ Len(node.childrens) = 0)
    THEN [res |-> RNode(<<>>), node |-> [node EXCEPT !.hash = data]]
    ELSE IF HasKids(node) THEN updateLoop(node, 1, search, data)
    ELSE [res |-> RNull, node |-> node]

updateLoop(node, i, search, data) ==
    IF i > Len(node.childrens) THEN [res |-> RNull, node |-> node]
    ELSE LET r == updateNode(node.childrens[i], search, data)
             node2 == [node EXCEPT !.childrens[i] = r.node]
         IN  IF r.res.kind = "node"
             THEN [res |-> RNode(<<>>), node |-> renewNodeHash(node2)]
             ELSE updateLoop(node2, i + 1, search, data)

\* --------------------------------------------------------------- removeNode
\* a "node" result is the matching node itself or a renewed ancestor of it;
\* result.label tells them apart
\* variant: splice(i) without a count drops the rest of the children as well
RemoveAt_tail(s, i) == SubSeq(s, 1, i - 1)
RemoveAt(s, i) == SubSeq(s, 1, i - 1) \o SubSeq(s, i + 1, Len(s))

\* variant: the guard on the reserved label is missing
removeNode_noGuard(node, search) ==
    IF node.label = search
    THEN [res |-> RNode(<<>>), node |-> node]
    ELSE IF HasKids(node) THEN removeLoop(node, 1, search)
    ELSE [res |-> RNull, node |-> node]

removeNode(node, search) ==
    IF search = "root" THEN [res |-> RFalse, node |-> node]
    ELSE IF node.label = search
         THEN [res |-> RNode(<<>>), node |-> node]
    ELSE IF HasKids(node) THEN removeLoop(node, 1, search)
    ELSE [res |-> RNull, node |-> node]

removeLoop(node, i, search) ==
    IF i > Len(node.childrens)
    THEN [res |-> RNull, node |-> node]
    ELSE LET r == removeNode(node.childrens[i], search)
             node2 == [node EXCEPT !.childrens[i] = r.node]
             node3 == IF r.res.kind = "node" /\ r.node.label = search
                      THEN [node2 EXCEPT !.childrens = RemoveAt(@, i)]
                      ELSE node2
         IN  IF r.res.kind = "node"
             THEN [res |-> RNode(<<>>), node |-> renewNodeHash(node3)]
             ELSE removeLoop(node3, i + 1, search)

\* ------------------------------------------------------- tree observation
RECURSIVE Size(_)
RECURSIVE SizeSeq(_, _)
Size(node) == 1 + SizeSeq(node.childrens, 1)
SizeSeq(kids, i) ==
    IF i > Len(kids) THEN 0 ELSE Size(kids[i]) + SizeSeq(kids, i + 1)

RECURSIVE NodeAt(_, _)
NodeAt(node, p) ==
    IF p = <<>> THEN node ELSE NodeAt(node.childrens[Head(p)], Tail(p))

\* paths of all nodes, in pre-order (node before its children, left to right)
RECURSIVE PreOrder(_)
RECURSIVE PreOrderKids(_, _)
Prefixed(i, ps) == [k \in 1..Len(ps) |-> <<i>> \o ps[k]]
PreOrder(node) == <<<<>>>> \o PreOrderKids(node.childrens, 1)
PreOrderKids(kids, i) ==
    IF i > Len(kids) THEN <<>>
    ELSE Prefixed(i, PreOrder(kids[i])) \o PreOrderKids(kids, i + 1)

Range(s) == {s[k] : k \in 1..Len(s)}
Paths(t) == Range(PreOrder(t))

\* ------------------------------------------------- Web3Service and Api
\* accounts are named by their address; null is NoAccount
Accounts == {"0xA", "0xB", "0xC"}
NoAccount == "null"

\* Web3Service constructor: empty wallet, defaultOptions.from = null, and no
\* transaction sent yet
ApiNew == [wallet |-> <<>>, from |-> NoAccount,
           tx |-> [method |-> "none", opt |-> NoAccount, sender |-> NoAccount]]

\* Web3Service.addAccount: wallet.add(account), and the account becomes the
\* default sender only when none is set
addAccount(a, account) ==
    [a EXCEPT !.wallet = Append(@, account),
              !.from = IF @ = NoAccount THEN account ELSE @]

\* Api constructor: addAccountFromPrivateKey(privateKey)
ApiInit(privateKey) == addAccount(ApiNew, privateKey)

\* const from = opt ? opt.from : this.defaultOptions.from, where opt is the
\* options object (always an object, so always truthy) and optFrom its field
FromOfOpt(a, optFrom) == optFrom

\* const from = opt.from ? opt.from : this.defaultOptions.from
FromOfOptFrom(a, optFrom) == IF optFrom # NoAccount THEN optFrom ELSE a.from

\* the IPFS service before any call
NoCalls == <<>>
EmptyStore == {}

\* ------------------------------------------------------------------ actions
Init ==
    /\ api = ApiNew
    /\ store = EmptyStore
    /\ calls = NoCalls
    /\ tree = initTree
    /\ pre = initTree
    /\ op = [name |-> "initTree", a1 |-> "", a2 |-> "", a3 |-> ""]
    /\ ret = RNone

InsertNode ==
    \E parentLabel \in Labels, label \in Labels, hash \in Hashes :
        LET r == insertNode(tree, parentLabel, label, hash)
        IN  /\ Size(tree) < MaxNodes
            /\ tree' = r.node
            /\ pre' = tree
            /\ op' = [name |-> "insertNode", a1 |-> parentLabel,
                      a2 |-> label, a3 |-> hash]
            /\ ret' = r.res
            /\ UNCHANGED <<apiVars, ipfsVars>>

Dfs ==
    \E search \in Labels :
        /\ tree' = tree
        /\ pre' = tree
        /\ op' = [name |-> "dfs", a1 |-> search, a2 |-> "", a3 |-> ""]
        /\ ret' = dfs(tree, search)
        /\ UNCHANGED <<apiVars, ipfsVars>>

UpdateNode ==
    \E search \in Labels, data \in Addrs :
        LET r == updateNode(tree, search, data)
        IN  /\ tree' = r.node
            /\ pre' = tree
            /\ op' = [name |-> "updateNode", a1 |-> search,
                      a2 |-> data, a3 |-> ""]
            /\ ret' = r.res
            /\ UNCHANGED <<apiVars, ipfsVars>>

RemoveNode ==
    \E search \in Labels :
        LET r == removeNode(tree, search)
        IN  /\ tree' = r.node
            /\ pre' = tree
            /\ op' = [name |-> "removeNode", a1 |-> search,
                      a2 |-> "", a3 |-> ""]
            /\ ret' = r.res
            /\ UNCHANGED <<apiVars, ipfsVars>>

Next == InsertNode \/ Dfs \/ UpdateNode \/ RemoveNode

Spec == Init /\ [][Next]_vars

\* ------------------------------------------- renewNodeHash on arbitrary nodes
\* A second specification applies renewNodeHash to nodes whose hash and
\* children are drawn freely, consistent or not.
KidHashes == Hashes \cup {Sha3("x")}
Kids == {NewNode(l, h) : l \in Labels \ {"root"}, h \in KidHashes}
KidSeqs == UNION {[1..n -> Kids] : n \in 0..MaxKids}
RenewInputs ==
    {[label |-> "root", hash |-> h, hasChildrens |-> hc, childrens |-> ks] :
        h \in KidHashes, hc \in BOOLEAN, ks \in KidSeqs}

InitRenew ==
    /\ api = ApiNew
    /\ store = EmptyStore
    /\ calls = NoCalls
    /\ tree \in {n \in RenewInputs : n.hasChildrens \/ n.childrens = <<>>}
    /\ pre = tree
    /\ op = [name |-> "input", a1 |-> "", a2 |-> "", a3 |-> ""]
    /\ ret = RNone

Renew ==
    /\ op.a1 # "second"
    /\ tree' = renewNodeHash(tree)
    /\ pre' = tree
    /\ op' = [name |-> "renewNodeHash",
              a1 |-> IF op.name = "renewNodeHash" THEN "second" ELSE "first",
              a2 |-> "", a3 |-> ""]
    /\ ret' = RNode(<<>>)
    /\ UNCHANGED <<apiVars, ipfsVars>>

NextRenew == Renew

SpecRenew == InitRenew /\ [][NextRenew]_vars

\* ------------------------------------------------------------ IpfsService
\* The content store is a set of entries keyed by address.  A leaf payload is
\* one of Data and its address one of Addrs; a tree is stored as the parsed
\* value of its JSON text and its address is derived from that text.
Data == {"p", "q"}
NoData == ""
NoLabel == ""
NoAddr == ""

\* the cid ipfs.files.add returns for a leaf payload
LeafCid(d) == IF d = "p" THEN "x" ELSE "y"

\* JSON.stringify of a node: label, hash and, when the field exists, the
\* array of the children
RECURSIVE Stringify(_)
RECURSIVE StringifyAll(_, _)
Stringify(node) ==
    "{" \o node.label \o ":" \o node.hash \o
    (IF node.hasChildrens
     THEN "[" \o StringifyAll(node.childrens, 1) \o "]" ELSE "") \o "}"
StringifyAll(kids, i) ==
    IF i > Len(kids) THEN ""
    ELSE Stringify(kids[i]) \o StringifyAll(kids, i + 1)

\* variant: the address is derived from the root's label and hash only
TreeCid_rootHash(t) == "Qm" \o t.label \o ":" \o t.hash

\* the cid ipfs.files.add returns for the JSON text of a tree
TreeCid(t) == "Qm" \o Stringify(t)

LeafEntry(d) ==
    [addr |-> LeafCid(d), kind |-> "leaf", data |-> d, tree |-> initTree]
TreeEntry(t) ==
    [addr |-> TreeCid(t), kind |-> "tree", data |-> NoData, tree |-> t]

\* ipfs.files.add: the content is retrievable at its cid afterwards
Put(st, e) == {o \in st : o.addr # e.addr} \cup {e}
saveData(st, d) == Put(st, LeafEntry(d))
saveObject(st, t) == Put(st, TreeEntry(t))

\* ipfs.files.get
Has(st, a) == \E e \in st : e.addr = a
getData(st, a) == CHOOSE e \in st : e.addr = a
\* getObject parses the text again on every call: the caller owns the value
\* variant: the read resolves with some stored tree, not the addressed one
getObject_anyTree(st, a) == (CHOOSE e \in st : e.kind = "tree").tree
getObject(st, a) == getData(st, a).tree

\* an insertion request { parentLabel, label, data, childrens }
Ins(parentLabel, label, data, childrens) ==
    [parentLabel |-> parentLabel, label |-> label, data |-> data,
     childrens |-> childrens]

\* a suspended handleInsertion (waiting for the payload to be saved) or a
\* suspended fetchNodeData (waiting for the payload to be read)
InsertTask(parentLabel, label, data) ==
    [kind |-> "insert", parentLabel |-> parentLabel, label |-> label,
     data |-> data, path |-> <<>>, state |-> "pending"]
FetchTask(path) ==
    [kind |-> "fetch", parentLabel |-> NoLabel, label |-> NoLabel,
     data |-> NoData, path |-> path, state |-> "pending"]

\* handleInsertions / handleInsertion up to their first await.  acc is the
\* tree being built and the handleInsertion calls that are suspended.
RECURSIVE handleInsertions(_, _, _, _)
RECURSIVE handleInsertion(_, _, _)
\* variant: an insertion whose parent is missing aborts the rest of the batch
handleInsertions_stopAtMiss(acc, insertions, i, parentLabel) ==
    IF i > Len(insertions) THEN acc
    ELSE IF parentLabel = NoLabel
            /\ dfs(acc.tree, insertions[i].parentLabel).kind # "node"
         THEN acc
    ELSE handleInsertions(handleInsertion(acc, insertions[i], parentLabel),
                          insertions, i + 1, parentLabel)

handleInsertions(acc, insertions, i, parentLabel) ==
    IF i > Len(insertions) THEN acc
    ELSE handleInsertions(handleInsertion(acc, insertions[i], parentLabel),
                          insertions, i + 1, parentLabel)

\* variant: the caller's parentLabel wins over the enclosing insertion's label
handleInsertion_ownParent(acc, insertion, parentLabel) ==
    LET pl == IF insertion.parentLabel # NoLabel
              THEN insertion.parentLabel ELSE parentLabel
        nested == Len(insertion.childrens) > 0
    IN  IF ~nested /\ insertion.data # NoData
        THEN [acc EXCEPT !.tasks =
                  Append(@, InsertTask(pl, insertion.label, insertion.data))]
        ELSE LET t2 == insertNode(acc.tree, pl, insertion.label, NULL).node
             IN  IF nested
                 THEN handleInsertions([acc EXCEPT !.tree = t2],
                                       insertion.childrens, 1, insertion.label)
                 ELSE [acc EXCEPT !.tree = t2]

\* variant: data is saved whenever the insertion carries some, children or not
handleInsertion_dataFirst(acc, insertion, parentLabel) ==
    LET pl == IF parentLabel # NoLabel THEN parentLabel
              ELSE insertion.parentLabel
        nested == Len(insertion.childrens) > 0
    IN  IF insertion.data # NoData
        THEN [acc EXCEPT !.tasks =
                  Append(@, InsertTask(pl, insertion.label, insertion.data))]
        ELSE LET t2 == insertNode(acc.tree, pl, insertion.label, NULL).node
             IN  IF nested
                 THEN handleInsertions([acc EXCEPT !.tree = t2],
                                       insertion.childrens, 1, insertion.label)
                 ELSE [acc EXCEPT !.tree = t2]

handleInsertion(acc, insertion, parentLabel) ==
    LET pl == IF parentLabel # NoLabel
              THEN parentLabel ELSE insertion.parentLabel
        nested == Len(insertion.childrens) > 0
    IN  IF ~nested /\ insertion.data # NoData
        THEN [acc EXCEPT !.tasks =
                  Append(@, InsertTask(pl, insertion.label, insertion.data))]
        ELSE LET t2 == insertNode(acc.tree, pl, insertion.label, NULL).node
             IN  IF nested
                 THEN handleInsertions([acc EXCEPT !.tree = t2],
                                       insertion.childrens, 1, insertion.label)
                 ELSE [acc EXCEPT !.tree = t2]

\* fetchNodeData up to its first await: one suspended read per leaf that
\* holds an address, below the node at path p
RECURSIVE fetchNodeData(_, _)
RECURSIVE fetchLoop(_, _, _)
fetchNodeData(t, p) ==
    LET node == NodeAt(t, p)
    IN  IF HasKids(node) THEN fetchLoop(t, p, 1)
        ELSE IF Truthy(node.hash) THEN <<FetchTask(p)>>
        ELSE <<>>
\* variant: the loop returns with the first child
fetchLoop_firstChild(t, p, i) ==
    IF i > Len(NodeAt(t, p).childrens) THEN <<>>
    ELSE fetchNodeData(t, p \o <<i>>)
fetchLoop(t, p, i) ==
    IF i > Len(NodeAt(t, p).childrens) THEN <<>>
    ELSE fetchNodeData(t, p \o <<i>>) \o fetchLoop(t, p, i + 1)

\* node.hash = <payload> on the node at path p
RECURSIVE SetHashAt(_, _, _)
SetHashAt(node, p, h) ==
    IF p = <<>> THEN [node EXCEPT !.hash = h]
    ELSE [node EXCEPT !.childrens[Head(p)] = SetHashAt(@, Tail(p), h)]

\* ----------------------------------------------------- IpfsService calls
\* insertion batches the callers submit
LeafA == Ins("root", "a", "p", <<>>)
LeafB == Ins("root", "b", "q", <<>>)
Orphan == Ins("zz", "b", "q", <<>>)
Nested == Ins("root", "a", NoData, <<Ins("root", "b", "p", <<>>)>>)
Batches == {<<Orphan, LeafA>>, <<Nested>>}
\* the insertions a new tree is initialised with
InitBatches == {<<Nested>>}
\* the tree an earlier initTree call persisted: a root with two leaves
Seeds == {<<LeafA, LeafB>>}
\* labels and payloads the callers search for and write
SearchLabels == {"root", "a"}
UpdateData == {"q"}

\* one call of an IpfsService method: its arguments, where it is suspended,
\* its local tree, its suspended sub-calls and how its promise settled
NewCall(name, addr, batch, search, data, fetch, pc) ==
    [op |-> name, addr |-> addr, batch |-> batch, search |-> search,
     data |-> data, fetch |-> fetch, pc |-> pc,
     tree |-> initTree, base |-> initTree, tasks |-> <<>>,
     status |-> "pending", raddr |-> NoAddr, rnode |-> RNone,
     engine |-> RNone, wrote |-> {}, fails |-> 0]

\* variant: the first resolved insertion resolves the batch (race, not all)
AllOk_any(tasks) == \E k \in 1..Len(tasks) : tasks[k].state = "ok"
AllOk(tasks) == \A k \in 1..Len(tasks) : tasks[k].state = "ok"

RECURSIVE SumFails(_, _)
SumFails(cs, i) == IF i > Len(cs) THEN 0 ELSE cs[i].fails + SumFails(cs, i + 1)
\* a store operation may fail while the failure budget lasts
MayFail == SumFails(calls, 1) < MaxFailures

TreeAddrs(st) == {e.addr : e \in {o \in st : o.kind = "tree"}}

\* variant: the rejection is caught and dropped, the caller is never told
Rejected_swallowed(c) ==
    [c EXCEPT !.fails = @ + 1]
\* the promise rejects: the caller gets the error, nothing else happens in
\* the call itself (sub-calls already started keep running)
Rejected(c) ==
    [c EXCEPT !.status = IF @ = "pending" THEN "error" ELSE @,
              !.pc = "done", !.fails = @ + 1]

\* variant: the tree is saved without awaiting the started insertions
AfterStart_noWait(c, acc) ==
    [c EXCEPT !.tree = acc.tree, !.tasks = acc.tasks, !.pc = "putTree"]

\* continuation of a call once handleInsertions has started every insertion
AfterStart(c, acc) ==
    [c EXCEPT !.tree = acc.tree, !.tasks = acc.tasks,
              !.pc = IF acc.tasks = <<>> THEN "putTree" ELSE "tasks"]

\* the tree a completed sequence of saves leaves, tasks resuming in order
RECURSIVE RunInOrder(_, _, _)
RunInOrder(t, tasks, k) ==
    IF k > Len(tasks) THEN t
    ELSE RunInOrder(insertNode(t, tasks[k].parentLabel, tasks[k].label,
                               LeafCid(tasks[k].data)).node, tasks, k + 1)

\* what an earlier, undisturbed initTree(batch) left in the store
SeedTree(batch) ==
    LET acc == handleInsertions([tree |-> initTree, tasks |-> <<>>],
                                batch, 1, NoLabel)
    IN  RunInOrder(acc.tree, acc.tasks, 1)
SeedStore(batch) ==
    LET acc == handleInsertions([tree |-> initTree, tasks |-> <<>>],
                                batch, 1, NoLabel)
    IN  {LeafEntry(acc.tasks[k].data) : k \in 1..Len(acc.tasks)}
            \cup {TreeEntry(SeedTree(batch))}

InitIpfs ==
    /\ \E batch \in Seeds : store = SeedStore(batch)
    /\ calls = NoCalls
    /\ api = ApiNew
    /\ tree = initTree
    /\ pre = initTree
    /\ op = [name |-> "ipfs", a1 |-> "", a2 |-> "", a3 |-> ""]
    /\ ret = RNone

\* IpfsService.initTree(insertions)
CallInitTree ==
    \E batch \in InitBatches :
        LET c == NewCall("initTree", NoAddr, batch, NoLabel, NoData, FALSE,
                         "tasks")
            acc == handleInsertions([tree |-> initTree, tasks |-> <<>>],
                                    batch, 1, NoLabel)
        IN  /\ Len(calls) < MaxCalls
            /\ calls' = Append(calls, AfterStart(c, acc))
            /\ UNCHANGED <<store, dagVars, apiVars>>

\* IpfsService.insertNodes(ipfsHash, insertions)
CallInsertNodes ==
    \E a \in TreeAddrs(store), batch \in Batches :
        /\ Len(calls) < MaxCalls
        /\ calls' = Append(calls, NewCall("insertNodes", a, batch, NoLabel,
                                          NoData, FALSE, "get"))
        /\ UNCHANGED <<store, dagVars, apiVars>>

\* IpfsService.updateNode(ipfsHash, search, data)
CallUpdateNode ==
    \E a \in TreeAddrs(store), search \in SearchLabels, data \in UpdateData :
        /\ Len(calls) < MaxCalls
        /\ calls' = Append(calls, NewCall("updateNode", a, <<>>, search,
                                          data, FALSE, "putLeaf"))
        /\ UNCHANGED <<store, dagVars, apiVars>>

\* IpfsService.removeNode(ipfsHash, search)
CallRemoveNode ==
    \E a \in TreeAddrs(store), search \in SearchLabels :
        /\ Len(calls) < MaxCalls
        /\ calls' = Append(calls, NewCall("removeNode", a, <<>>, search,
                                          NoData, FALSE, "get"))
        /\ UNCHANGED <<store, dagVars, apiVars>>

\* IpfsService.searchNode(ipfsHash, search, fetchData = true)
CallSearchNode ==
    \E a \in TreeAddrs(store), search \in SearchLabels :
        /\ Len(calls) < MaxCalls
        /\ calls' = Append(calls, NewCall("searchNode", a, <<>>, search,
                                          NoData, TRUE, "get"))
        /\ UNCHANGED <<store, dagVars, apiVars>>

\* what a call does with the tree getObject resolved with
Loaded(c, t) ==
    LET c1 == [c EXCEPT !.base = t, !.tree = t]
    IN  CASE c.op = "insertNodes" ->
               AfterStart(c1, handleInsertions([tree |-> t, tasks |-> <<>>],
                                               c.batch, 1, NoLabel))
          [] c.op = "updateNode" ->
               LET r == updateNode(t, c.search, LeafCid(c.data))
               IN  [c1 EXCEPT !.tree = r.node, !.engine = r.res,
                              !.pc = "putTree"]
          [] c.op = "removeNode" ->
               LET r == removeNode(t, c.search)
               IN  [c1 EXCEPT !.tree = r.node, !.engine = r.res,
                              !.pc = "putTree"]
          [] OTHER ->
               LET result == dfs(t, c.search)
                   tasks == IF result.kind = "node" /\ c.fetch
                            THEN fetchNodeData(t, result.path) ELSE <<>>
               IN  IF tasks = <<>>
                   THEN [c1 EXCEPT !.rnode = result, !.status = "ok",
                                   !.pc = "done"]
                   ELSE [c1 EXCEPT !.rnode = result, !.tasks = tasks,
                                   !.pc = "tasks"]

\* await this.getObject(ipfsHash) settles
GetDone ==
    \E i \in 1..Len(calls), ok \in BOOLEAN :
        /\ calls[i].pc = "get"
        /\ ok \/ MayFail
        /\ calls' = [calls EXCEPT ![i] =
                        IF ok THEN Loaded(@, getObject(store, @.addr))
                        ELSE Rejected(@)]
        /\ UNCHANGED <<store, dagVars, apiVars>>

\* updateNode: await this.saveObject(encryptedPayload) settles
PutLeafDone ==
    \E i \in 1..Len(calls), ok \in BOOLEAN :
        /\ calls[i].pc = "putLeaf"
        /\ ok \/ MayFail
        /\ store' = IF ok THEN saveData(store, calls[i].data) ELSE store
        /\ calls' = [calls EXCEPT ![i] =
                        IF ok THEN [@ EXCEPT !.pc = "get",
                                             !.wrote = @ \cup {LeafCid(calls[i].data)}]
                        ELSE Rejected(@)]
        /\ UNCHANGED <<dagVars, apiVars>>

\* handleInsertion: await this.saveObject(data) settles, then insertNode
InsertTaskDone ==
    \E i \in 1..Len(calls), ok \in BOOLEAN :
      \E k \in 1..Len(calls[i].tasks) :
        LET c == calls[i]
            t == c.tasks[k]
            c1 == [c EXCEPT !.tasks[k].state = "ok",
                            !.tree = insertNode(c.tree, t.parentLabel, t.label,
                                                LeafCid(t.data)).node,
                            !.wrote = @ \cup {LeafCid(t.data)}]
            c2 == IF AllOk(c1.tasks) /\ c1.status = "pending"
                  THEN [c1 EXCEPT !.pc = "putTree"] ELSE c1
        IN  /\ t.kind = "insert"
            /\ t.state = "pending"
            /\ ok \/ MayFail
            /\ store' = IF ok THEN saveData(store, t.data) ELSE store
            /\ calls' = [calls EXCEPT ![i] =
                            IF ok THEN c2
                            ELSE Rejected([c EXCEPT !.tasks[k].state = "failed"])]
            /\ UNCHANGED <<dagVars, apiVars>>

\* fetchNodeData: await getObject(node.hash) settles, then node.hash = payload
FetchTaskDone ==
    \E i \in 1..Len(calls), ok \in BOOLEAN :
      \E k \in 1..Len(calls[i].tasks) :
        LET c == calls[i]
            t == c.tasks[k]
            a == NodeAt(c.tree, t.path).hash
            c1 == [c EXCEPT !.tasks[k].state = "ok",
                            !.tree = SetHashAt(@, t.path, getData(store, a).data)]
            c2 == IF AllOk(c1.tasks) /\ c1.status = "pending"
                  THEN [c1 EXCEPT !.status = "ok", !.pc = "done"] ELSE c1
        IN  /\ t.kind = "fetch"
            /\ t.state = "pending"
            \* the read of an address the store does not hold answers with an error
            /\ IF ok THEN Has(store, a) ELSE (MayFail \/ ~Has(store, a))
            /\ calls' = [calls EXCEPT ![i] =
                            IF ok THEN c2
                            ELSE Rejected([c EXCEPT !.tasks[k].state = "failed"])]
            /\ UNCHANGED <<store, dagVars, apiVars>>

\* await this.saveObject(tree) settles: the call returns the tree's address
PutTreeDone ==
    \E i \in 1..Len(calls), ok \in BOOLEAN :
        /\ calls[i].pc = "putTree"
        /\ ok \/ MayFail
        /\ store' = IF ok THEN saveObject(store, calls[i].tree) ELSE store
        /\ calls' = [calls EXCEPT ![i] =
                        IF ok THEN [@ EXCEPT !.status = "ok", !.pc = "done",
                                             !.raddr = TreeCid(calls[i].tree),
                                             !.wrote = @ \cup {TreeCid(calls[i].tree)}]
                        ELSE Rejected(@)]
        /\ UNCHANGED <<dagVars, apiVars>>

NextIpfs ==
    \/ CallInitTree \/ CallInsertNodes \/ CallUpdateNode \/ CallRemoveNode
    \/ CallSearchNode
    \/ GetDone \/ PutLeafDone \/ InsertTaskDone \/ FetchTaskDone \/ PutTreeDone

SpecIpfs == InitIpfs /\ [][NextIpfs]_vars

\* ------------------------------------------- IpfsService, one call at a time
\* richer insertions: a leaf without data, an insertion with data and children,
\* a nested insertion under a missing parent
Bare == Ins("root", "b", NoData, <<>>)
Both == Ins("root", "c", "q", <<Ins(NoLabel, "d", "p", <<>>)>>)
OrphanNested == Ins("zz", "a", NoData, <<Ins(NoLabel, "b", "p", <<>>)>>)
SoloBatches == {<<LeafA, LeafB>>, <<Nested>>, <<Both>>, <<OrphanNested>>}
SoloSeeds == {<<LeafA, LeafB>>, <<LeafA, Bare>>, <<Nested>>}

InitSolo ==
    /\ \E batch \in SoloSeeds : store = SeedStore(batch)
    /\ calls = NoCalls
    /\ api = ApiNew
    /\ tree = initTree
    /\ pre = initTree
    /\ op = [name |-> "ipfs", a1 |-> "", a2 |-> "", a3 |-> ""]
    /\ ret = RNone

\* IpfsService.initTree(insertions)
SoloInitTree ==
    \E batch \in SoloBatches :
        LET c == NewCall("initTree", NoAddr, batch, NoLabel, NoData, FALSE,
                         "tasks")
            acc == handleInsertions([tree |-> initTree, tasks |-> <<>>],
                                    batch, 1, NoLabel)
        IN  /\ Len(calls) < MaxSoloCalls
            /\ calls' = Append(calls, AfterStart(c, acc))
            /\ UNCHANGED <<store, dagVars, apiVars>>

\* IpfsService.insertNodes(ipfsHash, insertions)
SoloInsertNodes ==
    \E a \in TreeAddrs(store), batch \in SoloBatches :
        /\ Len(calls) < MaxSoloCalls
        /\ calls' = Append(calls, NewCall("insertNodes", a, batch, NoLabel,
                                          NoData, FALSE, "get"))
        /\ UNCHANGED <<store, dagVars, apiVars>>

\* IpfsService.updateNode(ipfsHash, search, data)
SoloUpdateNode ==
    \E a \in TreeAddrs(store), search \in Labels, data \in Data :
        /\ Len(calls) < MaxSoloCalls
        /\ calls' = Append(calls, NewCall("updateNode", a, <<>>, search,
                                          data, FALSE, "putLeaf"))
        /\ UNCHANGED <<store, dagVars, apiVars>>

\* IpfsService.removeNode(ipfsHash, search)
SoloRemoveNode ==
    \E a \in TreeAddrs(store), search \in Labels :
        /\ Len(calls) < MaxSoloCalls
        /\ calls' = Append(calls, NewCall("removeNode", a, <<>>, search,
                                          NoData, FALSE, "get"))
        /\ UNCHANGED <<store, dagVars, apiVars>>

\* IpfsService.searchNode(ipfsHash, search, fetchData)
SoloSearchNode ==
    \E a \in TreeAddrs(store), search \in Labels, fetch \in BOOLEAN :
        /\ Len(calls) < MaxSoloCalls
        /\ calls' = Append(calls, NewCall("searchNode", a, <<>>, search,
                                          NoData, fetch, "get"))
        /\ UNCHANGED <<store, dagVars, apiVars>>

NextSolo ==
    \/ SoloInitTree \/ SoloInsertNodes \/ SoloUpdateNode \/ SoloRemoveNode
    \/ SoloSearchNode
    \/ GetDone \/ PutLeafDone \/ InsertTaskDone \/ FetchTaskDone \/ PutTreeDone

SpecSolo == InitSolo /\ [][NextSolo]_vars

\* every store get and put eventually answers, with a value or an error
StoreAnswers ==
    /\ WF_vars(GetDone) /\ WF_vars(PutLeafDone) /\ WF_vars(InsertTaskDone)
    /\ WF_vars(FetchTaskDone) /\ WF_vars(PutTreeDone)

FairSolo == SpecSolo /\ StoreAnswers

\* ------------------------------------------------------ the Api, as a spec
\* The Api is constructed with a first private key; afterwards accounts are
\* added and transaction methods are called with or without opt.from.
InitApi ==
    /\ \E k \in Accounts : api = ApiInit(k)
    /\ tree = initTree
    /\ pre = initTree
    /\ op = [name |-> "api", a1 |-> "", a2 |-> "", a3 |-> ""]
    /\ ret = RNone
    /\ store = EmptyStore
    /\ calls = NoCalls

AddAccountFromPrivateKey ==
    \E k \in Accounts :
        /\ Len(api.wallet) < MaxAccounts
        /\ api' = addAccount(api, k)
        /\ UNCHANGED <<dagVars, ipfsVars>>

\* Api.createPersonalIdentity(profileDataNodes, opt) : send({ from, ... })
CreatePersonalIdentity ==
    \E optFrom \in Accounts \cup {NoAccount} :
        /\ api' = [api EXCEPT !.tx = [method |-> "createPersonalIdentity",
                                      opt |-> optFrom,
                                      sender |-> FromOfOpt(api, optFrom)]]
        /\ UNCHANGED <<dagVars, ipfsVars>>

\* Api.createMultiSigIdentity(owners, required, profileDataNodes, opt)
CreateMultiSigIdentity ==
    \E optFrom \in Accounts \cup {NoAccount} :
        /\ api' = [api EXCEPT !.tx = [method |-> "createMultiSigIdentity",
                                      opt |-> optFrom,
                                      sender |-> FromOfOptFrom(api, optFrom)]]
        /\ UNCHANGED <<dagVars, ipfsVars>>

NextApi ==
    AddAccountFromPrivateKey \/ CreatePersonalIdentity \/ CreateMultiSigIdentity

SpecApi == InitApi /\ [][NextApi]_vars

\* ------------------------------------------------------ reference notions
\* the children of a node that carry a non-null hash, in child order
HashedKids(node) == SelectSeq(node.childrens, LAMBDA k : k.hash # NULL)

RECURSIVE Join(_)
Join(hs) == IF hs = <<>> THEN "" ELSE Head(hs).hash \o Join(Tail(hs))

\* first node in pre-order carrying the label, as a result value
FirstMatch(t, label) ==
    LET po == PreOrder(t)
        hits == {k \in 1..Len(po) : NodeAt(t, po[k]).label = label}
    IN  IF hits = {} THEN RNull
        ELSE RNode(po[CHOOSE k \in hits : \A m \in hits : k <= m])

HasLabel(t, label) == \E p \in Paths(t) : NodeAt(t, p).label = label

IsPrefix(q, p) == Len(q) <= Len(p) /\ SubSeq(p, 1, Len(q)) = q

\* ------------------------------------------------------------------- claims

\* C1: after any sequence of insertNode, updateNode and removeNode calls on a
\* tree obtained from initTree, every node with at least one child carrying a
\* non-null hash has its hash equal to the digest of the concatenation, in
\* child order, of its children's non-null hashes.
C1_HashIsDigestOfChildren ==
    \A p \in Paths(tree) :
        LET n == NodeAt(tree, p)
        IN  HashedKids(n) # <<>> => n.hash = Sha3(Join(HashedKids(n)))

C1_Witness ==
    /\ op.name \in {"insertNode", "updateNode", "removeNode"}
    /\ ret.kind = "node"
    /\ Len(HashedKids(tree)) = 2
    /\ tree.childrens[1].hash # tree.childrens[2].hash

\* C2: after any sequence of insertNode, updateNode and removeNode calls no
\* node that has children carries a leaf content address as its stored value.
C2_InternalHoldsNoAddress ==
    \A p \in Paths(tree) :
        HasKids(NodeAt(tree, p)) => NodeAt(tree, p).hash \notin Addrs

\* C3: removeNode(root, "root") returns a failure value and leaves the whole
\* tree unchanged; the root node is present after any sequence of operations.
C3_RootProtected ==
    /\ tree.label = "root"
    /\ (op.name = "removeNode" /\ op.a1 = "root") =>
           (ret.kind = "false" /\ tree = pre)

C3_Witness ==
    /\ op.name = "removeNode"
    /\ op.a1 = "root"
    /\ HasKids(tree)
    /\ ret.kind = "false"

\* C4: dfs(root, label) returns the first node in pre-order whose label equals
\* the searched label, null when no node has that label, the same node when
\* the call is repeated, and it does not mutate the tree.
C4_DfsFirstPreOrder ==
    [][op'.name = "dfs" =>
          /\ tree' = tree
          /\ ret' = FirstMatch(tree, op'.a1)
          /\ (op.name = "dfs" /\ op.a1 = op'.a1 => ret' = ret)]_vars

C4_Witness ==
    /\ op.name = "dfs"
    /\ ret.kind = "node"
    /\ ret.path # <<>>
    /\ \E p \in Paths(tree) :
          p # ret.path /\ NodeAt(tree, p).label = op.a1

\* C5: when the tree contains a node labelled P and no node labelled L,
\* insertNode(root, P, L, addr) appends one new node as the last child of the
\* first pre-order node labelled P, and afterwards dfs(root, L) returns that
\* node, which holds addr and has no children field.
C5_InsertThenFind ==
    (op.name = "insertNode" /\ HasLabel(pre, op.a1) /\ ~HasLabel(pre, op.a2)) =>
        LET pp == FirstMatch(pre, op.a1).path
            old == NodeAt(pre, pp)
            new == NodeAt(tree, pp)
            at == pp \o <<Len(new.childrens)>>
        IN  /\ new.hasChildrens
            /\ new.childrens = Append(old.childrens, NewNode(op.a2, op.a3))
            /\ Size(tree) = Size(pre) + 1
            /\ dfs(tree, op.a2) = RNode(at)
            /\ NodeAt(tree, at).hash = op.a3
            /\ ~NodeAt(tree, at).hasChildrens

C5_Witness ==
    /\ op.name = "insertNode"
    /\ HasLabel(pre, op.a1)
    /\ ~HasLabel(pre, op.a2)
    /\ HasKids(NodeAt(pre, FirstMatch(pre, op.a1).path))
    /\ op.a3 \in Addrs

\* C6: when no node of the tree is labelled parentLabel, insertNode returns
\* null and the tree is unchanged.
C6_InsertNoParent ==
    (op.name = "insertNode" /\ ~HasLabel(pre, op.a1)) =>
        (ret.kind = "null" /\ tree = pre)

C6_Witness ==
    /\ op.name = "insertNode"
    /\ ~HasLabel(pre, op.a1)
    /\ HasKids(pre)
    /\ ret.kind = "null"

\* C7: updateNode(root, L, addr) targets the node dfs(root, L) would return:
\* it returns null and leaves the tree unchanged when no node is labelled L or
\* when that first match has children, and otherwise replaces the content
\* address of exactly that leaf.
C7_UpdateTargetsDfsNode ==
    op.name = "updateNode" =>
        LET d == dfs(pre, op.a1)
        IN  IF d.kind = "null" \/ HasKids(NodeAt(pre, d.path))
            THEN ret.kind = "null" /\ tree = pre
            ELSE /\ ret.kind = "node"
                 /\ NodeAt(tree, d.path).hash = op.a2
                 /\ \A p \in Paths(pre) :
                       ~IsPrefix(p, d.path) => NodeAt(tree, p) = NodeAt(pre, p)

\* C8: inserting a leaf with a non-null content address under an existing
\* parent changes the hash of that parent and of every ancestor up to the
\* root, and changes no node outside that path.
C8_InsertChangesPathOnly ==
    (op.name = "insertNode" /\ HasLabel(pre, op.a1) /\ op.a3 # NULL) =>
        LET pp == FirstMatch(pre, op.a1).path
        IN  \A p \in Paths(pre) :
                IF IsPrefix(p, pp)
                THEN NodeAt(tree, p).hash # NodeAt(pre, p).hash
                ELSE NodeAt(tree, p) = NodeAt(pre, p)

\* C9: for every tree that contains a node labelled a (a different from
\* "root"), after removeNode(root, a) the search dfs(root, a) returns null and
\* the hash of the node that was a's parent differs from its value before.
C9_RemoveThenSearch ==
    (op.name = "removeNode" /\ op.a1 # "root" /\ HasLabel(pre, op.a1)) =>
        LET pa == FirstMatch(pre, op.a1).path
            parent == SubSeq(pa, 1, Len(pa) - 1)
        IN  /\ dfs(tree, op.a1).kind = "null"
            /\ NodeAt(tree, parent).hash # NodeAt(pre, parent).hash

\* C10: renewNodeHash is idempotent: applied a second time to a node whose
\* children are unchanged it leaves the hash and every other field as the
\* first application left them.
C10_RenewIdempotent ==
    [][(op.name = "renewNodeHash" /\ op'.name = "renewNodeHash") =>
          tree' = tree]_vars

C10_Witness ==
    /\ op.name = "renewNodeHash"
    /\ op.a1 = "second"
    /\ Len(HashedKids(tree)) = 2
    /\ tree.hash = Sha3(Join(HashedKids(tree)))

\* C19: after any sequence of insertNode, updateNode and removeNode calls
\* exactly one node of the tree carries the label "root" and it is the top
\* node: the reserved label is never given to an inserted node.
C19_SingleRoot ==
    \A p \in Paths(tree) : (NodeAt(tree, p).label = "root") <=> (p = <<>>)

\* C20: after any sequence of insertNode, updateNode and removeNode calls
\* every node either has no children field or a children sequence with at
\* least one element; removing the last child of a node leaves it without a
\* children field.
C20_NoEmptyChildren ==
    \A p \in Paths(tree) :
        NodeAt(tree, p).hasChildrens => Len(NodeAt(tree, p).childrens) > 0

\* C18: for every Api transaction method called without opt.from the sender
\* of the transaction is the address of the first account added to the
\* wallet, and adding further accounts never changes that default sender.
C18_DefaultSenderIsFirstAccount ==
    (api.tx.method # "none" /\ api.tx.opt = NoAccount) =>
        api.tx.sender = api.wallet[1]

\* the tree object an address holds (reference reading of the store)
StoredAt(st, a) == (CHOOSE e \in st : e.addr = a).tree

Mutations == {"initTree", "insertNodes", "updateNode", "removeNode"}

\* C12: persisted trees are immutable: in every step of the service, whatever
\* call starts or resumes, every address that holds a tree before the step
\* holds the very same tree after it.
C12_PersistedTreesImmutable ==
    [][\A e \in store :
          e.kind = "tree" =>
              /\ \E f \in store' : f.addr = e.addr
              /\ StoredAt(store', e.addr) = e.tree]_vars

\* a call returned an address, and a later call made with that address has
\* persisted a different tree under another address
C12_Witness ==
    \E i \in 1..Len(calls), j \in 1..Len(calls) :
        /\ i < j
        /\ calls[i].status = "ok" /\ calls[i].raddr # NoAddr
        /\ calls[j].op \in Mutations /\ calls[j].addr = calls[i].raddr
        /\ calls[j].status = "ok" /\ calls[j].raddr # calls[i].raddr
        /\ StoredAt(store, calls[i].raddr) = calls[i].tree

LeafAddrs == {LeafCid(d) : d \in Data}

\* C11 as stated: a mutation either writes the complete post-mutation tree and
\* returns its address, or fails and has written nothing to the store.
C11_NothingWrittenOnFailure ==
    \A i \in 1..Len(calls) :
        calls[i].op \in Mutations =>
            /\ calls[i].status = "ok" =>
                   /\ calls[i].raddr = TreeCid(calls[i].tree)
                   /\ \E e \in store : e.addr = calls[i].raddr
            /\ calls[i].status = "error" => calls[i].wrote = {}

\* C11, amended: a mutation either writes the complete tree it ended with (every
\* insertion of the batch resumed) and returns the address of that tree, or it
\* fails, returns no address and has written no tree object; leaf payloads it
\* saved before the failure remain in the store.
C11_NoPartialTree ==
    \A i \in 1..Len(calls) :
        calls[i].op \in Mutations =>
            /\ calls[i].status = "ok" =>
                   /\ AllOk(calls[i].tasks)
                   /\ calls[i].raddr = TreeCid(calls[i].tree)
                   /\ \E e \in store : e.addr = calls[i].raddr
                   /\ StoredAt(store, calls[i].raddr) = calls[i].tree
            /\ calls[i].status # "ok" =>
                   /\ calls[i].raddr = NoAddr
                   /\ calls[i].wrote \subseteq LeafAddrs

\* one mutation failed after saving a leaf payload, another one succeeded
C11_Witness ==
    \E i \in 1..Len(calls), j \in 1..Len(calls) :
        /\ calls[i].op \in Mutations /\ calls[i].status = "error"
        /\ calls[i].wrote # {}
        /\ calls[j].op \in Mutations /\ calls[j].status = "ok"
        /\ Len(calls[j].tasks) > 0

\* the trees a mutation applied alone to tree t can end with, one for each
\* order in which the saves of its insertions complete
Perms(n) == {p \in [1..n -> 1..n] : \A x, y \in 1..n : p[x] = p[y] => x = y}
RECURSIVE RunPerm(_, _, _, _)
RunPerm(t, tasks, p, k) ==
    IF k > Len(tasks) THEN t
    ELSE RunPerm(insertNode(t, tasks[p[k]].parentLabel, tasks[p[k]].label,
                            LeafCid(tasks[p[k]].data)).node, tasks, p, k + 1)
SoloTrees(c, t) ==
    CASE c.op = "updateNode" -> {updateNode(t, c.search, LeafCid(c.data)).node}
      [] c.op = "removeNode" -> {removeNode(t, c.search).node}
      [] OTHER ->
           LET acc == handleInsertions([tree |-> t, tasks |-> <<>>],
                                       c.batch, 1, NoLabel)
           IN  {RunPerm(acc.tree, acc.tasks, p, 1) : p \in Perms(Len(acc.tasks))}

\* two mutation calls made with the same address (calls are kept in the order
\* they started)
SameTarget(i, j) ==
    /\ i # j
    /\ calls[i].op \in Mutations \ {"initTree"}
    /\ calls[j].op \in Mutations \ {"initTree"}
    /\ calls[i].addr = calls[j].addr

\* C13: when two mutations run against the same address, in every interleaving
\* neither fails unless the store fails, each one that has returned gave the
\* address of the stored tree that is its own change applied alone to the
\* original tree, and the original address still holds the tree each of them
\* loaded.
C13_ConcurrentMutationsIndependent ==
    \A i \in 1..Len(calls), j \in 1..Len(calls) :
        SameTarget(i, j) =>
            /\ SumFails(calls, 1) = 0 =>
                   calls[i].status # "error" /\ calls[j].status # "error"
            /\ \E e \in store : e.addr = calls[i].addr /\ e.kind = "tree"
            /\ \A k \in {i, j} :
                   calls[k].status = "ok" =>
                       /\ calls[k].base = StoredAt(store, calls[k].addr)
                       /\ calls[k].tree \in
                              SoloTrees(calls[k], StoredAt(store, calls[k].addr))
                       /\ calls[k].raddr = TreeCid(calls[k].tree)
                       /\ StoredAt(store, calls[k].raddr) = calls[k].tree

\* two mutations of one address overlap: the one started first has loaded and
\* changed its copy and is still awaiting its save when the one started after
\* it has already returned the address of a different tree
C13_Witness ==
    \E i \in 1..Len(calls), j \in 1..Len(calls) :
        /\ SameTarget(i, j) /\ i < j
        /\ calls[i].pc = "putTree" /\ calls[i].tree # calls[i].base
        /\ calls[j].status = "ok" /\ calls[j].raddr # calls[j].addr
        /\ calls[j].tree # calls[i].tree
        /\ StoredAt(store, calls[i].addr) = calls[i].base

\* C14: an updateNode or removeNode call whose engine operation reported no
\* match (null: label absent or update of a node with children; false: removal
\* of "root") has failed with an error and returned no address.
C14_NoMatchFails ==
    \A i \in 1..Len(calls) :
        /\ calls[i].op \in {"updateNode", "removeNode"}
        /\ calls[i].pc = "done"
        /\ calls[i].engine.kind \in {"null", "false"}
        => calls[i].status = "error" /\ calls[i].raddr = NoAddr

\* the node at path p is a leaf made by insertion ins under its parent label
MadeBy(t, p, ins) ==
    /\ p # <<>>
    /\ NodeAt(t, p).label = ins.label
    /\ NodeAt(t, p).hash = LeafCid(ins.data)
    /\ ~NodeAt(t, p).hasChildrens
    /\ NodeAt(t, SubSeq(p, 1, Len(p) - 1)).label = ins.parentLabel

\* a batch of data leaves none of which names a leaf of the batch as parent
FlatBatch(b) ==
    \A k \in 1..Len(b) :
        /\ b[k].childrens = <<>> /\ b[k].data # NoData
        /\ \A m \in 1..Len(b) : b[k].parentLabel # b[m].label

\* C15: a batch insertion whose parent label is not in the tree is skipped
\* without error, and every other insertion of the batch whose parent exists is
\* applied and present in the persisted tree: the call fails only when a store
\* operation fails, and the tree it persists has exactly one new leaf for each
\* insertion whose parent exists and none for the others.
C15_MissingParentSkipped ==
    \A i \in 1..Len(calls) :
        LET c == calls[i]
            applied == {k \in 1..Len(c.batch) :
                           HasLabel(c.base, c.batch[k].parentLabel)}
        IN  /\ c.op \in {"initTree", "insertNodes"}
            /\ FlatBatch(c.batch)
            /\ applied # 1..Len(c.batch)
            => /\ SumFails(calls, 1) = 0 => c.status # "error"
               /\ c.status = "ok" =>
                      /\ StoredAt(store, c.raddr) = c.tree
                      /\ Size(c.tree) = Size(c.base) + Cardinality(applied)
                      /\ \A k \in applied :
                             \E p \in Paths(c.tree) : MadeBy(c.tree, p, c.batch[k])
                      /\ \A k \in 1..Len(c.batch) \ applied :
                             ~\E p \in Paths(c.tree) : MadeBy(c.tree, p, c.batch[k])

\* a batch with one insertion under a missing parent and one under "root" has
\* been persisted
C15_Witness ==
    \E i \in 1..Len(calls) :
        /\ calls[i].op = "insertNodes"
        /\ calls[i].batch = <<Orphan, LeafA>>
        /\ calls[i].status = "ok"
        /\ Size(StoredAt(store, calls[i].raddr)) = Size(calls[i].base) + 1

\* root -> a -> b, b a leaf holding the address of payload d
Chain(d) ==
    LET b == NewNode("b", LeafCid(d))
        a == [label |-> "a", hash |-> Sha3(LeafCid(d)), hasChildrens |-> TRUE,
              childrens |-> <<b>>]
    IN  [label |-> "root", hash |-> Sha3(Sha3(LeafCid(d))),
         hasChildrens |-> TRUE, childrens |-> <<a>>]

\* C16: the seed insertion {label a, children [{label b, data x}]} applied to a
\* fresh tree yields exactly root -> a -> b with b a leaf holding x's address,
\* although the caller put parentLabel "root" on b: that tree is the one the
\* call persists and returns the address of.
C16_NestedChildUnderEnclosing ==
    \A i \in 1..Len(calls) :
        /\ calls[i].op \in {"initTree", "insertNodes"}
        /\ calls[i].batch = <<Nested>>
        /\ calls[i].base = initTree
        /\ calls[i].status = "ok"
        => /\ calls[i].tree = Chain(Nested.childrens[1].data)
           /\ StoredAt(store, calls[i].raddr) = Chain(Nested.childrens[1].data)

\* initTree with the nested seed insertion has returned
C16_Witness ==
    \E i \in 1..Len(calls) :
        /\ calls[i].op = "initTree"
        /\ calls[i].batch = <<Nested>>
        /\ Nested.childrens[1].parentLabel = "root"
        /\ calls[i].status = "ok"
        /\ \E e \in store : e.addr = calls[i].raddr

\* C17: when the read of one leaf fails during searchNode with fetchLeafData,
\* the search still returns its result (the failure being reported for that
\* leaf only) once the other leaves have been fetched, instead of failing as a
\* whole.
C17_LeafFailureReportedPerLeaf ==
    \A i \in 1..Len(calls) :
        LET c == calls[i]
        IN  /\ c.op = "searchNode" /\ c.fetch
            /\ \E k \in 1..Len(c.tasks) : c.tasks[k].state = "failed"
            /\ \A k \in 1..Len(c.tasks) : c.tasks[k].state # "pending"
            => c.status = "ok" /\ c.rnode.kind = "node"

\* C21: updateNode(root, "root", addr) returns null and leaves the tree
\* unchanged for every tree: the root is never given a content address.
C21_RootNotUpdatable ==
    (op.name = "updateNode" /\ op.a1 = "root") =>
        (ret.kind = "null" /\ tree = pre)

\* C22: after any sequence of insertNode, updateNode and removeNode calls,
\* every node that has children none of which carries a non-null hash has a
\* null hash itself.
C22_NoHashedChildNullHash ==
    \A p \in Paths(tree) :
        (HasKids(NodeAt(tree, p)) /\ HashedKids(NodeAt(tree, p)) = <<>>) =>
            NodeAt(tree, p).hash = NULL

\* the sequence s without its i-th element
Without(s, i) == [k \in 1..(Len(s) - 1) |-> IF k < i THEN s[k] ELSE s[k + 1]]

\* the tree t without the node at path p (p not empty) and its subtree
RECURSIVE Cut(_, _)
Cut(t, p) ==
    IF Len(p) = 1 THEN [t EXCEPT !.childrens = Without(@, p[1])]
    ELSE [t EXCEPT !.childrens[Head(p)] = Cut(@, Tail(p))]

\* the tree t with the hashes of the nodes along path q blanked
RECURSIVE BlankPath(_, _)
BlankPath(t, q) ==
    IF q = <<>> THEN [t EXCEPT !.hash = ""]
    ELSE [t EXCEPT !.hash = "", !.childrens[Head(q)] = BlankPath(@, Tail(q))]

\* C23: a successful removeNode(root, L), L different from "root", removes
\* exactly the first node labelled L in pre-order together with its subtree;
\* every other node keeps its label, hash and place among its siblings, except
\* that the hashes of the nodes from the removed node's parent up to the root
\* may change.
C23_RemoveFrame ==
    (op.name = "removeNode" /\ op.a1 # "root" /\ ret.kind = "node") =>
        /\ HasLabel(pre, op.a1)
        /\ LET pa == FirstMatch(pre, op.a1).path
               parent == SubSeq(pa, 1, Len(pa) - 1)
           IN  BlankPath(tree, parent) = BlankPath(Cut(pre, pa), parent)

\* a removal took a node away from a tree of three nodes and left a sibling
\* or took a subtree of two nodes
C23_Witness ==
    /\ op.name = "removeNode" /\ op.a1 # "root" /\ ret.kind = "node"
    /\ Size(pre) = 3
    /\ Size(tree) < Size(pre)

\* C24: removeNode(root, L), L different from "root", returns a reference to
\* the removed node when a node labelled L exists and null when none does.
C24_RemoveReturnsRemoved ==
    (op.name = "removeNode" /\ op.a1 # "root") =>
        IF HasLabel(pre, op.a1)
        THEN ret = RNode(FirstMatch(pre, op.a1).path)
        ELSE ret = RNull

\* C25: for every pre-existing tree and every insertion with nested children,
\* each nested child ends up as a child of the very node its enclosing
\* insertion created (the new last child of the first node carrying the parent
\* label), not of another node with the same label, and nothing is attached
\* when the enclosing node was not created.
C25_NestedUnderCreatedNode ==
    \A i \in 1..Len(calls) :
        LET c == calls[i]
            ins == c.batch[1]
        IN  /\ c.op \in {"initTree", "insertNodes"}
            /\ Len(c.batch) = 1
            /\ Len(ins.childrens) > 0
            /\ c.status = "ok"
            => IF HasLabel(c.base, ins.parentLabel)
               THEN LET pp == FirstMatch(c.base, ins.parentLabel).path
                        created == pp \o <<Len(NodeAt(c.base, pp).childrens) + 1>>
                    IN  /\ created \in Paths(c.tree)
                        /\ NodeAt(c.tree, created).label = ins.label
                        /\ Len(NodeAt(c.tree, created).childrens)
                               = Len(ins.childrens)
                        /\ \A j \in 1..Len(ins.childrens) :
                               NodeAt(c.tree, created).childrens[j].label
                                   = ins.childrens[j].label
                        /\ Size(c.tree) = Size(c.base) + 1 + Len(ins.childrens)
               ELSE c.tree = c.base

\* an insertion that carries data and children, the data being carried by no
\* child, into a tree that has its parent and no node with its label
DataAndChildren(base, ins) ==
    /\ ins.data # NoData
    /\ Len(ins.childrens) > 0
    /\ \A j \in 1..Len(ins.childrens) :
           /\ ins.childrens[j].data \notin {NoData, ins.data}
           /\ ins.childrens[j].childrens = <<>>
    /\ HasLabel(base, ins.parentLabel)
    /\ ~HasLabel(base, ins.label)

\* C26: an insertion that carries both data and children creates an internal
\* node with no content address: the call never writes a payload for its data,
\* and in the tree it returns the node has the digest of its children's
\* addresses as hash, its children being leaves that hold their own data.
C26_DataIgnoredWithChildren ==
    \A i \in 1..Len(calls) :
        LET c == calls[i]
            ins == c.batch[1]
        IN  /\ c.op \in {"initTree", "insertNodes"}
            /\ Len(c.batch) = 1
            /\ DataAndChildren(c.base, ins)
            => /\ LeafCid(ins.data) \notin c.wrote
               /\ c.status = "ok" =>
                      LET n == NodeAt(c.tree, FirstMatch(c.tree, ins.label).path)
                      IN  /\ HasLabel(c.tree, ins.label)
                          /\ n.hash \notin LeafAddrs
                          /\ n.hash = Sha3(Join(HashedKids(n)))
                          /\ Len(n.childrens) = Len(ins.childrens)
                          /\ \A j \in 1..Len(ins.childrens) :
                                 n.childrens[j] =
                                     NewNode(ins.childrens[j].label,
                                             LeafCid(ins.childrens[j].data))

\* a call with an insertion carrying data and children has returned
C26_Witness ==
    \E i \in 1..Len(calls) :
        /\ calls[i].op = "insertNodes"
        /\ calls[i].batch = <<Both>>
        /\ DataAndChildren(calls[i].base, Both)
        /\ calls[i].status = "ok"

\* the labels of the insertions of a batch, nested ones included
RECURSIVE InsLabels(_, _)
InsLabels(b, i) ==
    IF i > Len(b) THEN <<>>
    ELSE <<b[i].label>> \o InsLabels(b[i].childrens, 1) \o InsLabels(b, i + 1)

CountLabel(t, l) == Cardinality({p \in Paths(t) : NodeAt(t, p).label = l})
CountIns(b, l) ==
    Cardinality({k \in 1..Len(InsLabels(b, 1)) : InsLabels(b, 1)[k] = l})

\* every top-level insertion of the batch has its parent in the loaded tree
\* (the nested ones then have theirs created by the enclosing insertion)
AllQualify(base, b) == \A k \in 1..Len(b) : HasLabel(base, b[k].parentLabel)

\* C27: in every interleaving of the leaf writes of one batch, the tree is
\* written only once every insertion of the batch, nested ones included, has
\* been applied, and no insertion is lost or doubled: the persisted tree has,
\* for each label, exactly as many more nodes than the loaded tree as the batch
\* has insertions with that label.
C27_NoLostInsertion ==
    \A i \in 1..Len(calls) :
        LET c == calls[i]
        IN  /\ c.op \in {"initTree", "insertNodes"}
            /\ AllQualify(c.base, c.batch)
            /\ c.pc \notin {"get"}
            => /\ c.status # "ok" => c.wrote \subseteq LeafAddrs
               /\ c.status = "ok" =>
                      /\ \A k \in 1..Len(c.tasks) : c.tasks[k].state = "ok"
                      /\ StoredAt(store, c.raddr) = c.tree
                      /\ \A l \in Range(InsLabels(c.batch, 1)) :
                             CountLabel(c.tree, l)
                                 = CountLabel(c.base, l) + CountIns(c.batch, l)
                      /\ Size(c.tree)
                             = Size(c.base) + Len(InsLabels(c.batch, 1))

\* a batch of two leaves has been persisted after its second write completed
\* first: the leaf inserted last is the first insertion of the batch
C27_Witness ==
    \E i \in 1..Len(calls) :
        LET c == calls[i]
        IN  /\ c.op = "insertNodes"
            /\ c.batch = <<LeafA, LeafB>>
            /\ c.status = "ok"
            /\ c.tree.childrens[Len(c.tree.childrens)].label = LeafA.label

\* C28: the tree persisted by insertNodes or initTree for a given loaded tree
\* and batch does not depend on the order in which the leaf writes complete: it
\* is the tree obtained when they complete in the order of the batch.
C28_OrderIndependent ==
    \A i \in 1..Len(calls) :
        LET c == calls[i]
            acc == handleInsertions([tree |-> c.base, tasks |-> <<>>],
                                    c.batch, 1, NoLabel)
        IN  (c.op \in {"initTree", "insertNodes"} /\ c.status = "ok") =>
                /\ c.tree = RunInOrder(acc.tree, acc.tasks, 1)
                /\ c.raddr = TreeCid(RunInOrder(acc.tree, acc.tasks, 1))

\* the payload stored at an address
PayloadAt(st, a) == (CHOOSE e \in st : e.addr = a).data

C30_EveryCallCompletes ==
    \A i \in 1..MaxSoloCalls :
        (Len(calls) >= i) ~>
            (Len(calls) >= i /\ calls[i].pc = "done"
                /\ calls[i].status \in {"ok", "error"})

\* a call that started several store operations completed with the error of
\* one of them
C30_Witness ==
    \E i \in 1..Len(calls) :
        /\ calls[i].pc = "done" /\ calls[i].status = "error"
        /\ Len(calls[i].tasks) >= 2
        /\ \E k \in 1..Len(calls[i].tasks) : calls[i].tasks[k].state = "failed"

====
